---- MODULE Spec2Model ----
(***************************************************************************)
(* Model of the health-check exporter's collection protocol                *)
(* (collector/collector.go): Metrics.Collect fans out one healthCheck      *)
(* goroutine per listed pod under the collector mutex, each goroutine      *)
(* probes the liveness endpoint of the pod's first container and writes    *)
(* one gauge sample to the output channel, and Collect returns once the    *)
(* WaitGroup has drained.                                                  *)
(*                                                                         *)
(* Time is counted in milliseconds by one timer per goroutine, started by  *)
(* start := time.Now() and read by time.Since(start).  A time.Duration is  *)
(* a count of nanoseconds, as in Go.  A nil pointer is the empty sequence  *)
(* and a non-nil pointer a one-element sequence.                           *)
(***************************************************************************)
EXTENDS Integers, Sequences, FiniteSets, TLC

\* ------------------------------------------------------------------ bounds
\* longest pod list the cluster API returns
MaxPods == 2
\* capacity of the output channel handed to Collect
ChanCap == 1
\* slowest response of a target that does respond, in milliseconds
MaxLatencyMs == 1

\* ------------------------------------------------------- program constants
\* time.Second in milliseconds, the unit of the timers
Second == 1000
\* time.Millisecond as a time.Duration, a count of nanoseconds
Millisecond == 1000000
\* variant: the client is built with Timeout: 30 * time.Second
Timeout_ThirtySeconds == 30 * Second

\* http.Client{Timeout: 3 * time.Second}
Timeout == 3 * Second

MetricName == "container_health_check_duration_millisecond"

\* newGlobalMetric(metricName, docString, labels): prometheus.NewDesc with
\* no constant labels
newGlobalMetric(metricName, docString, labels) ==
    [fqName |-> metricName, help |-> docString, variableLabels |-> labels]

\* the metrics field NewMetrics builds: the map of the descriptors by name;
\* no code assigns to it afterwards
metrics ==
    [name \in {MetricName} |->
        newGlobalMetric(name,
            "The time(millisecond) taken to invoke the health check interface",
            <<"namespace", "container_name", "pod_name">>)]
URISchemeHTTP == "HTTP"
URISchemeHTTPS == "HTTPS"

\* the scrapes that may call Collect on the one Metrics instance
Scrapers == {"s1", "s2"}
NoHolder == "unlocked"

\* ------------------------------------------------------------ pod records
HTTPGetAction(scheme, port, path) ==
    [scheme |-> scheme, port |-> port, path |-> path]

HTTPProbe(scheme, port, path) ==
    <<[httpGet |-> <<HTTPGetAction(scheme, port, path)>>]>>

\* a liveness probe with an Exec or TCPSocket handler: HTTPGet is nil
OtherProbe == <<[httpGet |-> <<>>]>>

Container(probe) == [livenessProbe |-> probe]

NoLabels == [k \in {} |-> ""]
AppLabel(v) == [k \in {"app"} |-> v]

Pod(ns, name, labels, ip, containers) ==
    [namespace |-> ns, name |-> name, labels |-> labels,
     podIP |-> ip, containers |-> containers]

\* the pods the cluster API may report, in the order it reports them
PodCatalog ==
    << Pod("default", "a", AppLabel("svcA"), "10.0.0.1",
           <<Container(HTTPProbe(URISchemeHTTP, 8080, "/healthz"))>>),
       Pod("default", "b", AppLabel("svcB"), "10.0.0.2",
           <<Container(<<>>)>>),
       Pod("kube-system", "c", NoLabels, "10.0.0.3",
           <<Container(OtherProbe)>>),
       Pod("default", "d", AppLabel("svcD"), "10.0.0.4", <<>>),
       Pod("default", "e", NoLabels, "",
           <<Container(HTTPProbe("", 8081, "/live"))>>),
       Pod("prod", "f", AppLabel("svcF"), "10.0.0.6",
           <<Container(HTTPProbe(URISchemeHTTPS, 8443, "/ready")),
             Container(HTTPProbe(URISchemeHTTP, 9090, "/other"))>>) >>

NoPod == Pod("", "", NoLabels, "", <<>>)

RECURSIVE SubSeqsFrom(_, _)
\* the sub-lists of PodCatalog[i..] of length at most n, catalog order kept
SubSeqsFrom(i, n) ==
    IF i > Len(PodCatalog) \/ n = 0 THEN {<<>>}
    ELSE SubSeqsFrom(i + 1, n)
         \cup {<<PodCatalog[i]>> \o r : r \in SubSeqsFrom(i + 1, n - 1)}

PodLists == SubSeqsFrom(1, MaxPods)

\* ------------------------------------------------------------ HTTP results
StatusCodes == {200, 404, 500}
TransportError == [err |-> TRUE, status |-> 0]
Responses ==
    {TransportError} \cup {[err |-> FALSE, status |-> s] : s \in StatusCodes}

\* --------------------------------------------------------------- the state
VARIABLES
    pc,          \* per scrape: position in Collect
    mutex,       \* c.mutex: NoHolder or the scrape that holds it
    items,       \* per scrape: pods.Items of its cycle
    idx,         \* per scrape: position of the range loop
    wg,          \* per scrape: counter of the cycle's WaitGroup
    tasks,       \* per scrape and loop index: the healthCheck goroutine
    ch,          \* per scrape: the channel handed to its Collect call
    proc,        \* the process: "running", "panicking" (a goroutine has
                 \* raised a panic nothing recovers), or "exited"
    desc,        \* the channel handed to the Describe call: what was sent;
                 \* and, as a record, whether a Collect held the mutex then
    seen         \* the consumer's note of the cycle it looked at last, as
                 \* that cycle was at its return: which of the pods it
                 \* follows had a sample

vars == <<pc, mutex, items, idx, wg, tasks, ch, proc, desc, seen>>

Slots == Scrapers \X (1..MaxPods)

\* a goroutine: its position, its copy of the pod (tmp), the milliseconds
\* since start := time.Now(), the result of the GET and the duration; and,
\* as the record of what it did, the GETs it issued, the samples it sent
\* and its calls of waitGroup.Done
IdleTask == [pc |-> "none", pod |-> NoPod, elapsed |-> 0,
             resp |-> TransportError, value |-> 0,
             gets |-> <<>>, out |-> <<>>, dones |-> 0]

\* no Describe call has sent anything that is still to be received
NoDescribe == [out |-> <<>>, busy |-> FALSE]

Init ==
    /\ pc = [s \in Scrapers |-> "idle"]
    /\ mutex = NoHolder
    /\ items = [s \in Scrapers |-> <<>>]
    /\ idx = [s \in Scrapers |-> 0]
    /\ wg = [s \in Scrapers |-> 0]
    /\ tasks = [t \in Slots |-> IdleTask]
    /\ ch = [s \in Scrapers |-> <<>>]
    /\ proc = "running"
    /\ desc = NoDescribe
    /\ seen = {}

\* ------------------------------------------------- healthCheck's functions
\* labels["app"]: a Go map lookup, "" when the key is absent
LabelLookup(labels, k) == IF k \in DOMAIN labels THEN labels[k] ELSE ""

\* spec.Containers[0] is an index expression: it panics on an empty slice
FirstContainerPanics(pod) == Len(pod.containers) = 0

\* livenessProbe != nil && livenessProbe.HTTPGet != nil
HasHTTPGetProbe(pod) ==
    LET livenessProbe == pod.containers[1].livenessProbe
    IN  /\ livenessProbe # <<>>
        /\ livenessProbe[1].httpGet # <<>>

\* if coreV1.URISchemeHTTP == httpGet.Scheme { "http://" } else { "https://" }
SchemePrefix(scheme) ==
    IF URISchemeHTTP = scheme THEN "http://" ELSE "https://"

\* scheme + podIP + ":" + strconv.Itoa(int(httpGet.Port.IntVal)) + httpGet.Path
ProbeURL(pod) ==
    LET httpGet == pod.containers[1].livenessProbe[1].httpGet[1]
    IN  [scheme |-> SchemePrefix(httpGet.scheme), host |-> pod.podIP,
         port |-> httpGet.port, path |-> httpGet.path]

\* time.Since(start), elapsed milliseconds after start: a time.Duration,
\* in nanoseconds
Since(elapsed) == elapsed * Millisecond

\* variant: the err branch is missing, the duration is always time.Since
ProbeDuration_NoErrBranch(resp, elapsed) == Since(elapsed)

\* variant: a response with a status of 400 or more counts as a failure
ProbeDuration_StatusAware(resp, elapsed) ==
    IF resp.err \/ resp.status >= 400 THEN -1 ELSE Since(elapsed)

\* if err != nil { duration = -1 } else { duration = time.Since(start) }
ProbeDuration(resp, elapsed) ==
    IF resp.err THEN -1 ELSE Since(elapsed)

\* MustNewConstMetric(desc, GaugeValue, float64(duration), meta.Namespace,
\* containerName, podName); the timestamp NewMetricWithTimestamp adds is
\* left out
NewSample(pod, duration) ==
    [metric |-> MetricName,
     namespace |-> pod.namespace,
     container_name |-> LabelLookup(pod.labels, "app"),
     pod_name |-> pod.name,
     value |-> duration]

\* ------------------------------------------------------------- Collect
\* a scrape calls Collect(ch) with its channel and reaches c.mutex.Lock()
Call(s) ==
    /\ proc # "exited"
    /\ pc[s] = "idle"
    /\ pc' = [pc EXCEPT ![s] = "lock"]
    /\ ch' = [ch EXCEPT ![s] = <<>>]
    /\ UNCHANGED <<mutex, items, idx, wg, tasks, proc, desc, seen>>

\* variant: Collect does not take the mutex
Lock_NoMutex(s) ==
    /\ proc # "exited"
    /\ pc[s] = "lock"
    /\ mutex' = s
    /\ pc' = [pc EXCEPT ![s] = "list"]
    /\ UNCHANGED <<items, idx, wg, tasks, ch, proc, desc, seen>>

\* c.mutex.Lock() returns: the cycle begins
Lock(s) ==
    /\ proc # "exited"
    /\ pc[s] = "lock"
    /\ mutex = NoHolder
    /\ mutex' = s
    /\ pc' = [pc EXCEPT ![s] = "list"]
    /\ UNCHANGED <<items, idx, wg, tasks, ch, proc, desc, seen>>

\* variant: the WaitGroup is armed ahead of the loop, wg.Add(1), and the
\* first iteration takes that count over; no iteration runs on an empty list
ListOk_ArmedAhead(s, pods) ==
    /\ proc # "exited"
    /\ pc[s] = "list"
    /\ items' = [items EXCEPT ![s] = pods]
    /\ idx' = [idx EXCEPT ![s] = 1]
    /\ wg' = [wg EXCEPT ![s] = IF Len(pods) = 0 THEN 1 ELSE 0]
    /\ pc' = [pc EXCEPT ![s] = IF Len(pods) = 0 THEN "wait" ELSE "loop"]
    /\ UNCHANGED <<mutex, tasks, ch, proc, desc, seen>>

\* Pods("").List(...) returns the pod list; var wg sync.WaitGroup
ListOk(s, pods) ==
    /\ proc # "exited"
    /\ pc[s] = "list"
    /\ items' = [items EXCEPT ![s] = pods]
    /\ idx' = [idx EXCEPT ![s] = 1]
    /\ wg' = [wg EXCEPT ![s] = 0]
    /\ pc' = [pc EXCEPT ![s] = IF Len(pods) = 0 THEN "wait" ELSE "loop"]
    /\ UNCHANGED <<mutex, tasks, ch, proc, desc, seen>>

\* variant: the error of the fetch is tested after the launch loop, which
\* ranges over the partial list that came with the error
ListFail_PanicAfterLoop(s) ==
    /\ proc # "exited"
    /\ pc[s] = "list"
    /\ mutex' = NoHolder
    /\ pc' = [pc EXCEPT ![s] = "panicked"]
    /\ proc' = "panicking"
    /\ wg' = [wg EXCEPT ![s] = 1]
    /\ tasks' = [tasks EXCEPT ![<<s, 1>>] =
                     [IdleTask EXCEPT !.pc = "start", !.pod = PodCatalog[1]]]
    /\ UNCHANGED <<items, idx, ch, desc, seen>>

\* variant: Unlock is called at the end of Collect and not deferred, so the
\* panic of a failed fetch leaves the mutex held
ListFail_NoDeferredUnlock(s) ==
    /\ proc # "exited"
    /\ pc[s] = "list"
    /\ pc' = [pc EXCEPT ![s] = "panicked"]
    /\ proc' = "panicking"
    /\ UNCHANGED <<mutex, items, idx, wg, tasks, ch, desc, seen>>

\* Pods("").List(...) returns an error: panic(err.Error()); the deferred
\* c.mutex.Unlock() runs while the goroutine unwinds
ListFail(s) ==
    /\ proc # "exited"
    /\ pc[s] = "list"
    /\ mutex' = NoHolder
    /\ pc' = [pc EXCEPT ![s] = "panicked"]
    /\ proc' = "panicking"
    /\ UNCHANGED <<items, idx, wg, tasks, ch, desc, seen>>

\* variant: the goroutine is handed the address of the loop variable with
\* no copy, go healthCheck(&item, c, ch, &wg), and the variable is shared by
\* the iterations: the goroutines read the item of the last iteration
Launch_SharedLoopVariable(s) ==
    /\ proc # "exited"
    /\ pc[s] = "loop"
    /\ idx[s] <= Len(items[s])
    /\ wg' = [wg EXCEPT ![s] = @ + 1]
    /\ tasks' = [tasks EXCEPT ![<<s, idx[s]>>] =
                    [IdleTask EXCEPT !.pc = "start",
                                     !.pod = items[s][Len(items[s])]]]
    /\ idx' = [idx EXCEPT ![s] = @ + 1]
    /\ pc' = [pc EXCEPT ![s] = IF idx[s] = Len(items[s]) THEN "wait"
                                                        ELSE "loop"]
    /\ UNCHANGED <<mutex, items, ch, proc, desc, seen>>

\* one iteration of the range loop: wg.Add(1); tmp := item;
\* go healthCheck(&tmp, c, ch, &wg)
Launch(s) ==
    /\ proc # "exited"
    /\ pc[s] = "loop"
    /\ idx[s] <= Len(items[s])
    /\ wg' = [wg EXCEPT ![s] = @ + 1]
    /\ tasks' = [tasks EXCEPT ![<<s, idx[s]>>] =
                    [IdleTask EXCEPT !.pc = "start",
                                     !.pod = items[s][idx[s]]]]
    /\ idx' = [idx EXCEPT ![s] = @ + 1]
    /\ pc' = [pc EXCEPT ![s] = IF idx[s] = Len(items[s]) THEN "wait"
                                                        ELSE "loop"]
    /\ UNCHANGED <<mutex, items, ch, proc, desc, seen>>

\* variant: Collect does not wait for the WaitGroup
WaitUnblocked_NoWait(s) == TRUE

\* wg.Wait() unblocks when the counter is zero
WaitUnblocked(s) == wg[s] = 0

\* variant: the collector keeps what the last cycle reported and, once its
\* goroutines have ended, sends the kept samples of the pods that are
\* missing from the new list
Wait_ResendsKept(s) ==
    /\ proc # "exited"
    /\ pc[s] = "wait"
    /\ WaitUnblocked(s)
    /\ pc' = [pc EXCEPT ![s] = "return"]
    /\ LET kept == {p \in seen : \A i \in 1..Len(items[s]) : items[s][i] # p}
       IN  IF kept # {} /\ Len(ch[s]) < ChanCap
           THEN ch' = [ch EXCEPT ![s] =
                          Append(@, NewSample(CHOOSE p \in kept : TRUE, -1))]
           ELSE UNCHANGED ch
    /\ UNCHANGED <<mutex, items, idx, wg, tasks, proc, desc, seen>>

\* wg.Wait() returns: Collect is at its return
Wait(s) ==
    /\ proc # "exited"
    /\ pc[s] = "wait"
    /\ WaitUnblocked(s)
    /\ pc' = [pc EXCEPT ![s] = "return"]
    /\ UNCHANGED <<mutex, items, idx, wg, tasks, ch, proc, desc, seen>>

\* Collect returns and the deferred c.mutex.Unlock() runs; the cycle's
\* locals, its channel and the records of its goroutines are gone
Return(s) ==
    /\ proc # "exited"
    /\ pc[s] = "return"
    /\ mutex' = NoHolder
    /\ pc' = [pc EXCEPT ![s] = "idle"]
    /\ items' = [items EXCEPT ![s] = <<>>]
    /\ idx' = [idx EXCEPT ![s] = 0]
    /\ tasks' = [t \in Slots |-> IF t[1] = s THEN IdleTask ELSE tasks[t]]
    /\ ch' = [ch EXCEPT ![s] = <<>>]
    /\ UNCHANGED <<wg, proc, desc, seen>>

\* ------------------------------------------------------------ healthCheck
\* the deferred waitGroup.Done() of the goroutine in slot t
Done(t) == wg' = [wg EXCEPT ![t[1]] = @ - 1]

\* healthCheck on a pod without containers: spec.Containers[0] panics with
\* index out of range, Done runs deferred and the panic is unrecovered
HealthCheckPanic(t) ==
    /\ proc # "exited"
    /\ tasks[t].pc = "start"
    /\ FirstContainerPanics(tasks[t].pod)
    /\ Done(t)
    /\ tasks' = [tasks EXCEPT ![t].pc = "panicked", ![t].dones = @ + 1]
    /\ proc' = "panicking"
    /\ UNCHANGED <<pc, mutex, items, idx, ch, desc, seen>>

\* variant: a pod without an HTTPGet probe is reported with the sentinel
HealthCheckSkip_EmitSentinel(t) ==
    /\ proc # "exited"
    /\ tasks[t].pc = "start"
    /\ ~FirstContainerPanics(tasks[t].pod)
    /\ ~HasHTTPGetProbe(tasks[t].pod)
    /\ tasks' = [tasks EXCEPT ![t].pc = "send", ![t].value = -1]
    /\ UNCHANGED <<pc, mutex, items, idx, wg, ch, proc, desc, seen>>

\* healthCheck on a pod whose first container has no HTTPGet liveness
\* probe: the if is skipped, the function returns and Done runs deferred
HealthCheckSkip(t) ==
    /\ proc # "exited"
    /\ tasks[t].pc = "start"
    /\ ~FirstContainerPanics(tasks[t].pod)
    /\ ~HasHTTPGetProbe(tasks[t].pod)
    /\ Done(t)
    /\ tasks' = [tasks EXCEPT ![t].pc = "done", ![t].dones = @ + 1]
    /\ UNCHANGED <<pc, mutex, items, idx, ch, proc, desc, seen>>

\* healthCheck up to the HTTP GET: start := time.Now(), the URL is built
\* and c.httpClient.Get(url) is issued
HealthCheckProbe(t) ==
    /\ proc # "exited"
    /\ tasks[t].pc = "start"
    /\ ~FirstContainerPanics(tasks[t].pod)
    /\ HasHTTPGetProbe(tasks[t].pod)
    /\ tasks' = [tasks EXCEPT ![t].pc = "get", ![t].elapsed = 0,
                              ![t].gets = Append(@, ProbeURL(tasks[t].pod))]
    /\ UNCHANGED <<pc, mutex, items, idx, wg, ch, proc, desc, seen>>

\* variant: a GET that returned an error is issued once more
GetReturn_RetryOnce(t, resp) ==
    /\ proc # "exited"
    /\ tasks[t].pc = "get"
    /\ ~resp.err => tasks[t].elapsed <= MaxLatencyMs /\ tasks[t].elapsed < Timeout
    /\ IF resp.err /\ Len(tasks[t].gets) < 2
       THEN tasks' = [tasks EXCEPT
                        ![t].elapsed = 0,
                        ![t].gets = Append(@, ProbeURL(tasks[t].pod))]
       ELSE tasks' = [tasks EXCEPT
                        ![t].pc = "send",
                        ![t].resp = resp,
                        ![t].value = ProbeDuration(resp, tasks[t].elapsed)]
    /\ UNCHANGED <<pc, mutex, items, idx, wg, ch, proc, desc, seen>>

\* c.httpClient.Get returns: a response of any status while the target
\* answers in time, or an error (refused, reset, or the client's Timeout);
\* then the duration is computed
GetReturn(t, resp) ==
    /\ proc # "exited"
    /\ tasks[t].pc = "get"
    /\ ~resp.err => tasks[t].elapsed <= MaxLatencyMs /\ tasks[t].elapsed < Timeout
    /\ tasks' = [tasks EXCEPT
                    ![t].pc = "send",
                    ![t].resp = resp,
                    ![t].value = ProbeDuration(resp, tasks[t].elapsed)]
    /\ UNCHANGED <<pc, mutex, items, idx, wg, ch, proc, desc, seen>>

\* variant: a failed probe returns without sending a sample
SendSample_SkipFailed(t) ==
    /\ proc # "exited"
    /\ tasks[t].pc = "send"
    /\ IF tasks[t].value = -1
       THEN /\ tasks' = [tasks EXCEPT ![t].pc = "done",
                                      ![t].resp = IdleTask.resp,
                                      ![t].elapsed = IdleTask.elapsed,
                                      ![t].dones = @ + 1]
            /\ UNCHANGED ch
       ELSE /\ Len(ch[t[1]]) < ChanCap
            /\ ch' = [ch EXCEPT ![t[1]] =
                         Append(@, NewSample(tasks[t].pod, tasks[t].value))]
            /\ tasks' = [tasks EXCEPT
                            ![t].pc = "done",
                            ![t].resp = IdleTask.resp,
                            ![t].elapsed = IdleTask.elapsed,
                            ![t].out = Append(@, NewSample(tasks[t].pod,
                                                           tasks[t].value)),
                            ![t].dones = @ + 1]
    /\ Done(t)
    /\ UNCHANGED <<pc, mutex, items, idx, proc, desc, seen>>

\* variant: the send does not wait for room in the channel
SendSample_NoBlock(t) ==
    /\ proc # "exited"
    /\ tasks[t].pc = "send"
    /\ LET sample == NewSample(tasks[t].pod, tasks[t].value) IN
       /\ ch' = [ch EXCEPT ![t[1]] = Append(@, sample)]
       /\ tasks' = [tasks EXCEPT ![t].pc = "done",
                                 ![t].resp = IdleTask.resp,
                                 ![t].elapsed = IdleTask.elapsed,
                                 ![t].out = Append(@, sample),
                                 ![t].dones = @ + 1]
    /\ Done(t)
    /\ UNCHANGED <<pc, mutex, items, idx, proc, desc, seen>>

\* the metric is built and ch <- metric blocks while the channel is full;
\* then healthCheck returns, Done runs deferred and resp and start are gone
SendSample(t) ==
    /\ proc # "exited"
    /\ tasks[t].pc = "send"
    /\ Len(ch[t[1]]) < ChanCap
    /\ LET sample == NewSample(tasks[t].pod, tasks[t].value) IN
       /\ ch' = [ch EXCEPT ![t[1]] = Append(@, sample)]
       /\ tasks' = [tasks EXCEPT ![t].pc = "done",
                                 ![t].resp = IdleTask.resp,
                                 ![t].elapsed = IdleTask.elapsed,
                                 ![t].out = Append(@, sample),
                                 ![t].dones = @ + 1]
    /\ Done(t)
    /\ UNCHANGED <<pc, mutex, items, idx, proc, desc, seen>>

\* ------------------------------------------------------------ environment
\* the caller of Collect receives one sample from the channel it handed in
Receive(s) ==
    /\ proc # "exited"
    /\ Len(ch[s]) > 0
    /\ ch' = [ch EXCEPT ![s] = Tail(@)]
    /\ UNCHANGED <<pc, mutex, items, idx, wg, tasks, proc, desc, seen>>

\* the goroutines whose HTTP GET is in flight
Pending == {t \in Slots : tasks[t].pc = "get"}

\* time passes while a GET is in flight: by one millisecond while some
\* target may still answer, or up to the moment the client's Timeout ends
\* a GET; the Timeout lets no GET stay in flight longer
Tick ==
    /\ proc # "exited"
    /\ Pending # {}
    /\ \E d \in {1} \cup {Timeout - tasks[t].elapsed : t \in Pending} :
        /\ d > 0
        /\ \A t \in Pending : tasks[t].elapsed + d <= Timeout
        /\ \/ d = 1 /\ \E t \in Pending : tasks[t].elapsed < MaxLatencyMs
           \/ \E t \in Pending : tasks[t].elapsed + d = Timeout
        /\ tasks' = [t \in Slots |->
                        IF t \in Pending
                        THEN [tasks[t] EXCEPT !.elapsed = @ + d]
                        ELSE tasks[t]]
    /\ UNCHANGED <<pc, mutex, items, idx, wg, ch, proc, desc, seen>>

\* the unrecovered panic ends the process: every goroutine, lock and
\* channel goes with it
Crash ==
    /\ proc = "panicking"
    /\ proc' = "exited"
    /\ pc' = [s \in Scrapers |-> "idle"]
    /\ mutex' = NoHolder
    /\ items' = [s \in Scrapers |-> <<>>]
    /\ idx' = [s \in Scrapers |-> 0]
    /\ wg' = [s \in Scrapers |-> 0]
    /\ tasks' = [t \in Slots |-> IdleTask]
    /\ ch' = [s \in Scrapers |-> <<>>]
    /\ desc' = NoDescribe
    /\ UNCHANGED seen

Next ==
    \/ \E s \in Scrapers : Call(s)
    \/ \E s \in Scrapers : Lock(s)
    \/ \E s \in Scrapers : \E pods \in PodLists : ListOk(s, pods)
    \/ \E s \in Scrapers : ListFail(s)
    \/ \E s \in Scrapers : Launch(s)
    \/ \E s \in Scrapers : Wait(s)
    \/ \E s \in Scrapers : Return(s)
    \/ \E t \in Slots : HealthCheckPanic(t)
    \/ \E t \in Slots : HealthCheckSkip(t)
    \/ \E t \in Slots : HealthCheckProbe(t)
    \/ \E t \in Slots : \E resp \in Responses : GetReturn(t, resp)
    \/ \E t \in Slots : SendSample(t)
    \/ \E s \in Scrapers : Receive(s)
    \/ Tick
    \/ Crash

Spec == Init /\ [][Next]_vars

\* ---------------------------------------------------------------- fairness
\* the steps of the Collect goroutine of scrape s once it holds the mutex:
\* the fetch returns, with a list or with an error, and the goroutine runs
CollectStep(s) ==
    \/ \E pods \in PodLists : ListOk(s, pods)
    \/ ListFail(s)
    \/ Launch(s)
    \/ Wait(s)
    \/ Return(s)

\* the steps of the healthCheck goroutine in slot t: it runs, its GET
\* returns (the client's Timeout ends it at the latest), its send goes
\* through once the channel has room
GoroutineStep(t) ==
    \/ HealthCheckPanic(t)
    \/ HealthCheckSkip(t)
    \/ HealthCheckProbe(t)
    \/ \E resp \in Responses : GetReturn(t, resp)
    \/ SendSample(t)

\* the Go scheduler runs every goroutine that can run; sync.Mutex hands the
\* lock to a waiter that has waited long (starvation mode), so a Lock that
\* can be taken again and again is taken; the caller of Collect keeps
\* receiving; a panicking process exits. A scrape need not ever call.
Fairness ==
    /\ \A s \in Scrapers : SF_vars(Lock(s))
    /\ \A s \in Scrapers : WF_vars(CollectStep(s))
    /\ \A t \in Slots : WF_vars(GoroutineStep(t))
    /\ \A s \in Scrapers : WF_vars(Receive(s))
    /\ WF_vars(Crash)

FairSpec == Spec /\ Fairness

\* ---------------------------------------------------------------- consumer
\* the pods whose samples the consumer follows from one scrape to the next
Followed == {PodCatalog[1]}

\* the consumer looks at the cycle of scrape s as Collect is at its return
\* and notes which of the pods it follows got a sample in it
Observe(s) ==
    /\ proc # "exited"
    /\ pc[s] = "return"
    /\ seen' = {p \in Followed :
                    \E i \in 1..MaxPods : \E k \in 1..Len(tasks[<<s, i>>].out) :
                        /\ tasks[<<s, i>>].out[k].namespace = p.namespace
                        /\ tasks[<<s, i>>].out[k].pod_name = p.name}
    /\ seen' # seen
    /\ UNCHANGED <<pc, mutex, items, idx, wg, tasks, ch, proc, desc>>

\* the scrapes together with the consumer's notes
ObservedNext ==
    \/ Next
    \/ \E s \in Scrapers : Observe(s)

ObservedSpec == Init /\ [][ObservedNext]_vars

\* ---------------------------------------------------------------- Describe
RECURSIVE DescsOf(_)
\* for _, m := range c.metrics: the descriptors of the keys, in an order
\* the map iteration picks
DescsOf(names) ==
    IF names = {} THEN <<>>
    ELSE LET n == CHOOSE x \in names : TRUE
         IN  <<metrics[n]>> \o DescsOf(names \ {n})

\* variant: Describe takes the collector's mutex for the time of its loop,
\* c.mutex.Lock(); defer c.mutex.Unlock()
Describe_Locked ==
    /\ proc # "exited"
    /\ desc.out = <<>>
    /\ mutex = NoHolder
    /\ desc' = [out |-> DescsOf(DOMAIN metrics), busy |-> mutex # NoHolder]
    /\ UNCHANGED <<pc, mutex, items, idx, wg, tasks, ch, proc, seen>>

\* Describe(ch): every descriptor of c.metrics is sent to the channel of the
\* call; no field of the collector is written and the mutex is not touched
Describe ==
    /\ proc # "exited"
    /\ desc.out = <<>>
    /\ desc' = [out |-> DescsOf(DOMAIN metrics), busy |-> mutex # NoHolder]
    /\ UNCHANGED <<pc, mutex, items, idx, wg, tasks, ch, proc, seen>>

\* the caller of Describe receives what was sent
DescribeReceive ==
    /\ proc # "exited"
    /\ desc.out # <<>>
    /\ desc' = NoDescribe
    /\ UNCHANGED <<pc, mutex, items, idx, wg, tasks, ch, proc, seen>>

\* the scrapes together with the calls of Describe
DescribeNext ==
    \/ Next
    \/ Describe
    \/ DescribeReceive

DescribeSpec == Init /\ [][DescribeNext]_vars

TypeOK ==
    /\ pc \in [Scrapers -> {"idle", "lock", "list", "loop", "wait", "return",
                            "panicked"}]
    /\ mutex \in Scrapers \cup {NoHolder}
    /\ \A s \in Scrapers : wg[s] \in 0..MaxPods
    /\ \A s \in Scrapers : Len(ch[s]) <= ChanCap
    /\ desc.busy \in BOOLEAN
    /\ Len(desc.out) <= Cardinality(DOMAIN metrics)
    /\ seen \subseteq Followed

\* ===================================================== properties checked
\* the first container of the pod declares an HTTPGet liveness probe
DeclaresHTTPGet(pod) ==
    /\ Len(pod.containers) > 0
    /\ pod.containers[1].livenessProbe # <<>>
    /\ pod.containers[1].livenessProbe[1].httpGet # <<>>

\* the pod has a first container, and it declares no liveness probe or a
\* liveness probe that is not an HTTPGet probe
LacksHTTPGet(pod) ==
    /\ Len(pod.containers) > 0
    /\ \/ pod.containers[1].livenessProbe = <<>>
       \/ pod.containers[1].livenessProbe[1].httpGet = <<>>

\* the goroutines of scrape s that have been launched and have not ended
LiveTasks(s) ==
    {i \in 1..MaxPods : tasks[<<s, i>>].pc \in {"start", "get", "send"}}

\* the samples written in the cycle of scrape s that carry the identity of
\* pod: the (goroutine, position) pairs of the records of what was sent
SamplesFor(s, pod) ==
    {k \in (1..MaxPods) \X (1..2) :
        /\ k[2] <= Len(tasks[<<s, k[1]>>].out)
        /\ tasks[<<s, k[1]>>].out[k[2]].namespace = pod.namespace
        /\ tasks[<<s, k[1]>>].out[k[2]].pod_name = pod.name}

\* the GETs issued in the cycle of scrape s for the pod at position i of
\* the list: by its own goroutine, or by any goroutine to the pod's address
GetsFor(s, i) ==
    {k \in (1..MaxPods) \X (1..2) :
        /\ k[2] <= Len(tasks[<<s, k[1]>>].gets)
        /\ \/ k[1] = i
           \/ tasks[<<s, k[1]>>].gets[k[2]].host = items[s][i].podIP}

\* C1 -- completeness: when Collect is at its return, every pod of the
\* cycle's list whose first container declares an HTTPGet liveness probe
\* has exactly one sample written, whatever the outcome of its probe; and
\* at no moment of the cycle has such a pod two samples.
C1_Completeness ==
    \A s \in Scrapers : \A i \in 1..Len(items[s]) :
        DeclaresHTTPGet(items[s][i]) =>
            /\ Cardinality(SamplesFor(s, items[s][i])) <= 1
            /\ pc[s] = "return" =>
                   Cardinality(SamplesFor(s, items[s][i])) = 1

\* a cycle at its return whose two pods both declare an HTTPGet probe, one
\* probe failed and one answered, each with its one sample
C1_Witness ==
    \E s \in Scrapers :
        /\ pc[s] = "return"
        /\ Len(items[s]) = 2
        /\ \A i \in 1..2 : /\ DeclaresHTTPGet(items[s][i])
                           /\ Len(tasks[<<s, i>>].out) = 1
        /\ \E i, j \in 1..2 : /\ tasks[<<s, i>>].out[1].value = -1
                              /\ tasks[<<s, j>>].out[1].value >= 0

\* C2 -- cardinality: for every pod of the cycle's list whose first
\* container has no liveness probe, or a liveness probe that is not an
\* HTTPGet probe, no sample is written and no HTTP GET is issued.
C2_Cardinality ==
    \A s \in Scrapers : \A i \in 1..Len(items[s]) :
        LacksHTTPGet(items[s][i]) =>
            /\ SamplesFor(s, items[s][i]) = {}
            /\ GetsFor(s, i) = {}

\* a cycle at its return that listed a pod without a probe and a pod with
\* a non-HTTP probe, both goroutines ended
C2_Witness ==
    \E s \in Scrapers :
        /\ pc[s] = "return"
        /\ Len(items[s]) = 2
        /\ \A i \in 1..2 : LacksHTTPGet(items[s][i])
        /\ items[s][1].containers[1].livenessProbe = <<>>
        /\ items[s][2].containers[1].livenessProbe # <<>>
        /\ \A i \in 1..2 : tasks[<<s, i>>].pc = "done"

\* scrape s is between the start of its pod-list fetch and its return, or
\* one of its goroutines has yet to write
InCycle(s) ==
    \/ pc[s] \in {"list", "loop", "wait", "return"}
    \/ LiveTasks(s) # {}

\* C3 -- mutual exclusion: the cycles of two concurrent Collect calls never
\* overlap: while one call is in its fetch or sample-writing phase, the
\* other is in neither and none of its goroutines is still to write.
C3_MutualExclusion ==
    \A s1, s2 \in Scrapers : s1 # s2 => ~(InCycle(s1) /\ InCycle(s2))

\* one call has a goroutine about to write its sample while the other call
\* is blocked in Lock
C3_Witness ==
    \E s1, s2 \in Scrapers :
        /\ s1 # s2
        /\ pc[s2] = "lock"
        /\ pc[s1] = "wait"
        /\ \E i \in 1..MaxPods : tasks[<<s1, i>>].pc = "send"

\* C4 -- exact completion barrier: the WaitGroup counter is never negative
\* and equals the number of launched goroutines that have not ended; no
\* goroutine signals completion twice; and when Collect is at its return,
\* every goroutine launched in the cycle has signalled completion exactly
\* once, none is still running, and each one that probed has written.
C4_ExactBarrier ==
    \A s \in Scrapers :
        /\ wg[s] >= 0
        /\ wg[s] = Cardinality(LiveTasks(s))
        /\ \A i \in 1..MaxPods : tasks[<<s, i>>].dones <= 1
        /\ pc[s] = "return" =>
              \A i \in 1..Len(items[s]) :
                  /\ tasks[<<s, i>>].pc \in {"done", "panicked"}
                  /\ tasks[<<s, i>>].dones = 1
                  /\ tasks[<<s, i>>].gets # <<>> =>
                         Len(tasks[<<s, i>>].out) = 1

\* a cycle at its return that launched one goroutine that wrote a sample
\* and one that wrote none
C4_Witness ==
    \E s \in Scrapers :
        /\ pc[s] = "return"
        /\ Len(items[s]) = 2
        /\ \E i, j \in 1..2 : /\ Len(tasks[<<s, i>>].out) = 1
                              /\ tasks[<<s, j>>].out = <<>>
                              /\ tasks[<<s, j>>].dones = 1

\* C5 -- a pod of the list that has no first container is skipped
\* silently: its goroutine raises no panic and the process is not aborted
\* on its account.
C5_NoContainerSkipped ==
    \A s \in Scrapers : \A i \in 1..Len(items[s]) :
        Len(items[s][i].containers) = 0 =>
            tasks[<<s, i>>].pc # "panicked"

\* C6 -- a pod with an empty PodIP whose first container declares an
\* HTTPGet liveness probe is not probed and not reported: no GET is issued
\* for it and no sample is written for it.
C6_NoIPNotEligible ==
    \A s \in Scrapers : \A i \in 1..Len(items[s]) :
        (items[s][i].podIP = "" /\ DeclaresHTTPGet(items[s][i])) =>
            /\ tasks[<<s, i>>].gets = <<>>
            /\ SamplesFor(s, items[s][i]) = {}

\* the goroutines of scrape s whose GET has returned
Probed(s) ==
    {i \in 1..MaxPods : /\ tasks[<<s, i>>].pc \in {"send", "done"}
                        /\ tasks[<<s, i>>].gets # <<>>}

\* the sample a pod is due for a duration: the pod's own namespace, its
\* app label (empty when absent) and its own name
OwnSample(pod, duration) ==
    [metric |-> "container_health_check_duration_millisecond",
     namespace |-> pod.namespace,
     container_name |-> IF "app" \in DOMAIN pod.labels
                        THEN pod.labels["app"] ELSE "",
     pod_name |-> pod.name,
     value |-> duration]

\* C7 -- failure isolation: a probe that failed gives its goroutine the
\* value -1 and every other probe the time of its own round trip; the
\* sample a goroutine writes carries that value and its own pod's
\* namespace, container_name and pod_name, whatever the other probes did;
\* and the cycle still reaches its return with the sample of every probed
\* pod written.
C7_FailureIsolation ==
    \A s \in Scrapers : \A i \in Probed(s) :
        LET t == tasks[<<s, i>>] IN
        /\ t.pc = "send" =>
               t.value = IF t.resp.err THEN -1 ELSE t.elapsed * 1000000
        /\ t.pc = "done" => t.out = <<OwnSample(items[s][i], t.value)>>
        /\ pc[s] = "return" => t.pc = "done"

\* a cycle at its return in which the probe of the first pod failed and the
\* probe of the second answered after a measurable time
C7_Witness ==
    \E s \in Scrapers :
        /\ pc[s] = "return"
        /\ Probed(s) = {1, 2}
        /\ tasks[<<s, 1>>].out[1].value = -1
        /\ tasks[<<s, 1>>].out[1].pod_name = items[s][1].name
        /\ tasks[<<s, 2>>].out[1].value > 0

\* the timeout budget of a probe, in milliseconds
BudgetMs == 3000

\* C8 -- timeout enforcement: no GET is in flight for more than the budget
\* of 3 seconds; a GET still unanswered when the budget ends returns as a
\* failure and its goroutine has the value -1 to send; and a goroutine
\* that has sent has sent its value and signalled completion.
C8_TimeoutEnforced ==
    \A t \in Slots :
        /\ tasks[t].pc = "get" => tasks[t].elapsed <= BudgetMs
        /\ tasks[t].pc = "send" =>
               /\ tasks[t].elapsed <= BudgetMs
               /\ tasks[t].elapsed = BudgetMs =>
                      tasks[t].resp.err /\ tasks[t].value = -1
        /\ (tasks[t].pc = "done" /\ tasks[t].gets # <<>>) =>
               /\ Len(tasks[t].out) = 1
               /\ tasks[t].out[1].value = tasks[t].value
               /\ tasks[t].dones = 1

\* a goroutine whose target never answered: its GET was ended by the
\* budget and it holds the value -1, about to send it
C8_Witness ==
    \E t \in Slots :
        /\ tasks[t].pc = "send"
        /\ tasks[t].elapsed = BudgetMs
        /\ tasks[t].resp.err
        /\ tasks[t].value = -1

\* C9 -- sample value and unit: the value of a sample is the round trip of
\* the probe in milliseconds when the probe got a response and -1 when it
\* failed, and the value of an answered probe is never negative.
C9_ValueInMilliseconds ==
    \A t \in Slots :
        /\ tasks[t].pc = "send" =>
               /\ tasks[t].resp.err => tasks[t].value = -1
               /\ ~tasks[t].resp.err => /\ tasks[t].value = tasks[t].elapsed
                                        /\ tasks[t].value >= 0
        /\ (tasks[t].pc = "done" /\ tasks[t].gets # <<>>) =>
               tasks[t].out[1].value = tasks[t].value

\* C10 -- status-agnostic success: a probe that got a response, of any
\* status code, yields a non-negative value, and a probe yields -1 exactly
\* when the GET returned an error; the value sent is the value so obtained.
C10_StatusAgnostic ==
    \A t \in Slots :
        /\ tasks[t].pc = "send" =>
               /\ tasks[t].resp.err <=> tasks[t].value = -1
               /\ \A code \in StatusCodes :
                      (~tasks[t].resp.err /\ tasks[t].resp.status = code) =>
                          tasks[t].value >= 0
        /\ (tasks[t].pc = "done" /\ tasks[t].gets # <<>>) =>
               \E k \in 1..Len(tasks[t].out) :
                   tasks[t].out[k].value = tasks[t].value

\* a cycle in which one probe was answered with 500 and one with 404 and
\* both goroutines hold a non-negative value to send
C10_Witness ==
    \E s \in Scrapers : \E i, j \in Probed(s) :
        /\ tasks[<<s, i>>].pc = "send" /\ tasks[<<s, j>>].pc = "send"
        /\ ~tasks[<<s, i>>].resp.err /\ tasks[<<s, i>>].resp.status = 500
        /\ ~tasks[<<s, j>>].resp.err /\ tasks[<<s, j>>].resp.status = 404
        /\ tasks[<<s, i>>].value >= 0
        /\ tasks[<<s, j>>].value >= 0

\* the scheme a probe declares: the Scheme field of the HTTPGet handler of
\* the pod's first container
DeclaredScheme(pod) == pod.containers[1].livenessProbe[1].httpGet[1].scheme

\* C11 -- scheme derivation: the URL of every GET issued in a cycle starts
\* with "https://" when the probe of its pod declares the HTTPS scheme, and
\* with "http://" for every other declared value, the unset (empty) scheme
\* included.
C11_SchemeDerivation ==
    \A s \in Scrapers : \A i \in 1..Len(items[s]) :
        \A k \in 1..Len(tasks[<<s, i>>].gets) :
            tasks[<<s, i>>].gets[k].scheme =
                IF DeclaredScheme(items[s][i]) = URISchemeHTTPS
                THEN "https://" ELSE "http://"

\* C12 -- fatal enumeration failure: a Collect whose pod-list fetch failed
\* has raised the fatal error with no goroutine launched: the process is
\* going down, the cycle has no pod list, none of its goroutine slots was
\* ever started, so no GET was issued, and its channel holds no sample.
C12_FatalListFailure ==
    \A s \in Scrapers :
        pc[s] = "panicked" =>
            /\ proc = "panicking"
            /\ items[s] = <<>>
            /\ \A i \in 1..MaxPods : /\ tasks[<<s, i>>].pc = "none"
                                     /\ tasks[<<s, i>>].gets = <<>>
                                     /\ tasks[<<s, i>>].out = <<>>
            /\ ch[s] = <<>>

\* the fetch of a scrape failed after an earlier cycle of the other scrape
\* had run to its return with a sample written
C12_Witness ==
    \E s1, s2 \in Scrapers :
        /\ s1 # s2
        /\ pc[s1] = "panicked"
        /\ proc = "panicking"
        /\ mutex = s2
        /\ pc[s2] = "return"
        /\ \E i \in 1..MaxPods : tasks[<<s2, i>>].out # <<>>

\* C13 -- lock release on every exit path: the mutex is held only by a
\* Collect that is between its Lock and its exit; a Collect that has
\* returned, or that has left through the fatal path of a failed fetch,
\* does not hold it; and whenever no Collect is in its critical section
\* the mutex is free, so that a Collect waiting in Lock can acquire it.
C13_LockReleased ==
    /\ \A s \in Scrapers :
           /\ pc[s] \in {"idle", "lock", "panicked"} => mutex # s
           /\ pc[s] \in {"list", "loop", "wait", "return"} => mutex = s
    /\ (\A s \in Scrapers : pc[s] \in {"idle", "lock", "panicked"}) =>
           mutex = NoHolder
    /\ \A s \in Scrapers :
           (pc[s] = "lock" /\ mutex = NoHolder /\ proc # "exited") =>
               ENABLED Lock(s)

\* a Collect left through the fatal path and the Collect that was waiting
\* has acquired the mutex and is in its own fetch
C13_Witness ==
    \E s1, s2 \in Scrapers :
        /\ s1 # s2
        /\ pc[s1] = "panicked"
        /\ mutex = s2
        /\ pc[s2] = "list"

\* the pods at the positions of the list of scrape s whose namespace, name
\* and app label (empty when absent) are the ones sample carries
PodsOf(s, sample) ==
    {i \in 1..Len(items[s]) :
        /\ sample.namespace = items[s][i].namespace
        /\ sample.pod_name = items[s][i].name
        /\ sample.container_name = IF "app" \in DOMAIN items[s][i].labels
                                   THEN items[s][i].labels["app"] ELSE ""}

\* C14 -- label traceability: every sample a goroutine has written, and
\* every sample waiting in the channel, carries the namespace, the name and
\* the app label of exactly one pod of the cycle's list; the sample
\* written by the goroutine launched for position i is the one of the pod
\* at position i, so no two goroutines report the same pod.
C14_LabelTraceability ==
    \A s \in Scrapers :
        /\ \A k \in 1..Len(ch[s]) : Cardinality(PodsOf(s, ch[s][k])) = 1
        /\ \A i \in 1..MaxPods : \A k \in 1..Len(tasks[<<s, i>>].out) :
               PodsOf(s, tasks[<<s, i>>].out[k]) = {i}
        /\ \A i, j \in 1..MaxPods :
               (i # j /\ tasks[<<s, i>>].out # <<>>
                      /\ tasks[<<s, j>>].out # <<>>) =>
                   \/ tasks[<<s, i>>].out[1].pod_name #
                          tasks[<<s, j>>].out[1].pod_name
                   \/ tasks[<<s, i>>].out[1].namespace #
                          tasks[<<s, j>>].out[1].namespace

\* two goroutines of one cycle have written, one for a pod with an app
\* label and one for a pod of another namespace without one
C14_Witness ==
    \E s \in Scrapers : \E i, j \in 1..MaxPods :
        /\ Len(items[s]) = 2
        /\ tasks[<<s, i>>].out # <<>>
        /\ tasks[<<s, j>>].out # <<>>
        /\ tasks[<<s, i>>].out[1].container_name # ""
        /\ tasks[<<s, j>>].out[1].container_name = ""
        /\ tasks[<<s, i>>].out[1].namespace # tasks[<<s, j>>].out[1].namespace

\* the number of samples the goroutines of scrape s have written
Written(s) ==
    Cardinality({i \in 1..MaxPods : tasks[<<s, i>>].out # <<>>})

\* C15 -- drain after writers, as claimed: a sample has left the channel of
\* a cycle only when none of the cycle's goroutines is still to write, and
\* a goroutine that is about to send never has to wait for the consumer:
\* the channel has room for its sample.
C15_DrainAfterWriters ==
    \A s \in Scrapers :
        /\ Written(s) > Len(ch[s]) =>
               (LiveTasks(s) = {} /\ pc[s] \in {"wait", "return"})
        /\ \A i \in 1..MaxPods :
               tasks[<<s, i>>].pc = "send" => Len(ch[s]) < ChanCap

\* C15 -- as amended: Collect does not drain the channel and nothing holds
\* the consumer back until the writers have finished; a send completes
\* only when the channel has room, so the channel never holds more than
\* its capacity and holds only samples that goroutines of the cycle have
\* written, in no greater number than were written; a writer facing a
\* full channel waits for the consumer; Collect is at its return only when
\* every goroutine of the cycle has ended.
C15_SendsAwaitRoom ==
    \A s \in Scrapers :
        /\ Len(ch[s]) <= ChanCap
        /\ Len(ch[s]) <= Written(s)
        /\ \A k \in 1..Len(ch[s]) :
               \E i \in 1..MaxPods : tasks[<<s, i>>].out = <<ch[s][k]>>
        /\ \A i \in 1..MaxPods :
               (tasks[<<s, i>>].pc = "send" /\ Len(ch[s]) = ChanCap) =>
                   ~ENABLED SendSample(<<s, i>>)
        /\ pc[s] = "return" => LiveTasks(s) = {}

\* a goroutine is about to send while the channel is full of what another
\* goroutine of the cycle wrote: it waits for the consumer to receive
C15_Witness ==
    \E s \in Scrapers : \E i, j \in 1..MaxPods :
        /\ i # j
        /\ tasks[<<s, i>>].pc = "send"
        /\ tasks[<<s, j>>].pc = "done"
        /\ tasks[<<s, j>>].out # <<>>
        /\ Len(ch[s]) = ChanCap
        /\ pc[s] = "wait"

\* the one descriptor the collector has
TheDescriptor ==
    [fqName |-> "container_health_check_duration_millisecond",
     help |-> "The time(millisecond) taken to invoke the health check interface",
     variableLabels |-> <<"namespace", "container_name", "pod_name">>]

\* the fetch of scrape s has returned a list with no pod
EmptyCycle(s) == pc[s] \in {"loop", "wait", "return"} /\ items[s] = <<>>

\* C16 -- empty pod list: a cycle whose list is empty is past its loop with
\* no goroutine launched, a WaitGroup at zero, no GET issued and no sample
\* in its channel; its wait and then its return, which frees the mutex it
\* holds, can be taken; and a Describe call still can be made and what a
\* Describe call has sent is the one static descriptor.
C16_EmptyPodList ==
    \A s \in Scrapers :
        EmptyCycle(s) =>
            /\ pc[s] # "loop"
            /\ wg[s] = 0
            /\ \A i \in 1..MaxPods : tasks[<<s, i>>] = IdleTask
            /\ ch[s] = <<>>
            /\ mutex = s
            /\ pc[s] = "wait" => ENABLED Wait(s)
            /\ pc[s] = "return" =>
                   ENABLED (Return(s) /\ mutex' = NoHolder /\ ch'[s] = <<>>)
            /\ desc.out = <<>> => ENABLED Describe
            /\ desc.out # <<>> => desc.out = <<TheDescriptor>>

\* a cycle with an empty list is at its return with nothing launched, and
\* a Describe call made while it held the mutex has sent the descriptor
C16_Witness ==
    \E s \in Scrapers :
        /\ pc[s] = "return"
        /\ items[s] = <<>>
        /\ \A i \in 1..MaxPods : tasks[<<s, i>>].pc = "none"
        /\ desc.busy
        /\ desc.out = <<TheDescriptor>>

\* the pod-list fetch of some scrape has failed
FetchFailed == \E s \in Scrapers : pc[s] = "panicked"

\* the Collect of scrape s has returned and the process lives on
Returned(s) == pc[s] = "idle" /\ proc # "exited" /\ mutex # s

\* C17 -- cycle liveness: unless a pod-list fetch fails, every Collect
\* whose fetch has returned a list eventually returns with the mutex
\* released, and every Collect blocked in Lock eventually starts its own
\* cycle; the GETs return and the consumer receives by fairness.
C17_CycleLiveness ==
    \/ <>FetchFailed
    \/ /\ \A s \in Scrapers : (pc[s] \in {"loop", "wait"}) ~> Returned(s)
       /\ \A s \in Scrapers : (pc[s] = "lock") ~> (pc[s] = "list")

\* a goroutine of some cycle has panicked on a pod without containers
GoroutinePanicked == \E t \in Slots : tasks[t].pc = "panicked"

\* the same liveness for the runs in which no goroutine panics: what is
\* left of C17 once the fault of C5 is set aside
C17_LivenessBarringPanic ==
    \/ <>FetchFailed
    \/ <>GoroutinePanicked
    \/ /\ \A s \in Scrapers : (pc[s] \in {"loop", "wait"}) ~> Returned(s)
       /\ \A s \in Scrapers : (pc[s] = "lock") ~> (pc[s] = "list")

\* the pod declares an HTTPGet liveness probe on its first container and
\* has an IP address
Eligible(pod) == DeclaresHTTPGet(pod) /\ pod.podIP # ""

\* the pod-list call of scrape s has returned its list
Fetched(s) == pc[s] \in {"loop", "wait", "return"}

\* at most one GET per pod of the list at every moment, the one GET of a
\* failed probe not followed by another, and one GET for every eligible
\* pod once Collect is at its return
OneGetPerPod ==
    \A s \in Scrapers : \A i \in 1..Len(items[s]) :
        /\ Cardinality(GetsFor(s, i)) <= 1
        /\ Len(tasks[<<s, i>>].gets) <= 1
        /\ (tasks[<<s, i>>].pc \in {"send", "done"}
              /\ tasks[<<s, i>>].value = -1) =>
               Len(tasks[<<s, i>>].gets) = 1
        /\ (pc[s] = "return" /\ Eligible(items[s][i])) =>
               Cardinality(GetsFor(s, i)) = 1

\* the fetch is entered from Lock only, so once in a cycle, and the list
\* it returned stays the list of the cycle until Collect returns
OneListCall ==
    \A s \in Scrapers :
        /\ (pc'[s] = "list" /\ pc[s] # "list") => pc[s] = "lock"
        /\ (Fetched(s) /\ pc'[s] # "idle") =>
               /\ pc'[s] \in {"loop", "wait", "return"}
               /\ items'[s] = items[s]

\* C18 -- request budget per cycle: a cycle makes one pod-list call, and
\* issues at most one GET per pod of its list, exactly one for every
\* eligible pod by the time Collect returns; a probe that failed or timed
\* out is not issued again.
C18_RequestBudget == []OneGetPerPod /\ [][OneListCall]_vars

\* a cycle at its return with an eligible pod whose one GET ran into the
\* timeout and a pod that declares no probe and got no GET
C18_Witness ==
    \E s \in Scrapers :
        /\ pc[s] = "return"
        /\ Len(items[s]) = 2
        /\ Eligible(items[s][1])
        /\ Len(tasks[<<s, 1>>].gets) = 1
        /\ tasks[<<s, 1>>].value = -1
        /\ ~DeclaresHTTPGet(items[s][2])
        /\ tasks[<<s, 2>>].gets = <<>>

\* the samples of the cycle of scrape s: those its goroutines have written
\* and those waiting in its channel
CycleSamples(s) ==
    UNION {{tasks[<<s, i>>].out[k] : k \in 1..Len(tasks[<<s, i>>].out)} :
              i \in 1..MaxPods}
    \cup {ch[s][k] : k \in 1..Len(ch[s])}

\* pod p is on the list of the cycle of scrape s
Listed(s, p) ==
    \E i \in 1..Len(items[s]) :
        items[s][i].namespace = p.namespace /\ items[s][i].name = p.name

\* C19 -- no persistence across cycles: a Collect that has not yet fetched
\* its list has no list, no goroutine record and no sample from any cycle
\* before; every sample of a cycle is for a pod of that cycle's own list
\* and carries the value its own goroutine of this cycle computed; and a
\* pod that had a sample in an earlier cycle and is not on the list of the
\* current one has no sample in the current one.
C19_NoPersistence ==
    \A s \in Scrapers :
        /\ pc[s] \in {"idle", "lock", "list"} =>
               /\ items[s] = <<>>
               /\ ch[s] = <<>>
               /\ \A i \in 1..MaxPods : tasks[<<s, i>>] = IdleTask
        /\ \A sample \in CycleSamples(s) :
               \E i \in 1..Len(items[s]) :
                   /\ sample.namespace = items[s][i].namespace
                   /\ sample.pod_name = items[s][i].name
                   /\ tasks[<<s, i>>].out = <<sample>>
                   /\ sample.value = tasks[<<s, i>>].value
        /\ \A p \in seen :
               ~Listed(s, p) =>
                   \A sample \in CycleSamples(s) :
                       ~(sample.namespace = p.namespace
                           /\ sample.pod_name = p.name)

\* a pod that had a sample in an earlier cycle is missing from the list of
\* the cycle now at its return, which wrote a sample for another pod
C19_Witness ==
    \E s \in Scrapers : \E p \in seen :
        /\ pc[s] = "return"
        /\ ~Listed(s, p)
        /\ CycleSamples(s) # {}
        /\ \A sample \in CycleSamples(s) : sample.pod_name # p.name

\* C20 -- Describe is independent of collection: as long as the process
\* runs, a Describe call can be made and runs to its end whoever holds the
\* mutex and whatever the Collect calls are doing; what it sends is the
\* one static descriptor, the same every time; and the step of a Describe
\* call changes neither the mutex nor anything of a cycle.
C20_DescribeIndependent ==
    /\ [](/\ (proc # "exited" /\ desc.out = <<>>) => ENABLED Describe
          /\ desc.out # <<>> => desc.out = <<TheDescriptor>>
          /\ desc.busy => desc.out = <<TheDescriptor>>)
    /\ [][desc'.out # <<>> /\ desc.out = <<>> =>
            /\ desc'.busy = (mutex # NoHolder)
            /\ UNCHANGED <<pc, mutex, items, idx, wg, tasks, ch, proc>>]_vars

\* a Describe call has sent the descriptor while one Collect held the
\* mutex with a GET in flight and the other Collect was blocked in Lock
C20_Witness ==
    \E s1, s2 \in Scrapers :
        /\ s1 # s2
        /\ mutex = s1
        /\ pc[s2] = "lock"
        /\ \E i \in 1..MaxPods : tasks[<<s1, i>>].pc = "get"
        /\ desc.busy
        /\ desc.out = <<TheDescriptor>>
====
